---- MODULE Spec2Model ----
(***************************************************************************)
(* Model of stream_processing.py: the run_stream loop that consumes the    *)
(* Wikimedia recent-change SSE feed, keeps per-title metrics and a sliding *)
(* window of edit timestamps, raises alerts, flushes metrics to disk and   *)
(* reconnects after transport errors.                                      *)
(***************************************************************************)
EXTENDS Integers, Sequences, FiniteSets, TLC

(***************************************************************************)
(* Configuration (module-level constants of the program).                  *)
(***************************************************************************)

\* The tracked set. The program tracks five titles; two of them are kept here,
\* which is enough to tell one entity's state from another's.
TRACKED_TITLES == {"Wikipedia", "YouTube"}

ALERT_WINDOW_SECONDS == 1800

ALERT_COUNT == 5

FLUSH_EVERY_SECONDS == 20

\* The slice bound of (m["last_comment"] or "")[:200].
COMMENT_CAP == 200

(***************************************************************************)
(* Bounds of the model.                                                    *)
(***************************************************************************)

\* Tracked events dispatched in one behaviour of Spec.
MaxEvents == 2

\* Tracked events dispatched in one behaviour of SpecWindow.
MaxBurst == 6

\* Tracked events dispatched in one behaviour of SpecRun.
MaxRun == 10

\* Clock advances, each of half a flush interval, in one behaviour.
MaxTicks == 2

\* Transport errors handled in one behaviour.
MaxReconnects == 2

(***************************************************************************)
(* Values. A JSON value is a tagged record; Python's None is JNull (what   *)
(* json.loads gives for null and what dict.get gives for a missing key).   *)
(* A string is the prefix of length len of the text s.                     *)
(***************************************************************************)

JNull == [t |-> "null"]

JStr(s, n) == [t |-> "str", s |-> s, len |-> n]

JInt(n) == [t |-> "int", n |-> n]

JArray == [t |-> "array"]

\* A JSON object, seen through the four keys the loop reads with event.get.
JObject(title, user, comment, timestamp) ==
    [t |-> "object", title |-> title, user |-> user,
     comment |-> comment, timestamp |-> timestamp]

\* Text that json.loads rejects.
NotJson(s) == [t |-> "notjson", s |-> s]

\* One line of the response body, as iter_lines yields it.
EmptyLine == [prefix |-> "", payload |-> NotJson("")]

FieldLine == [prefix |-> "event:", payload |-> NotJson("message")]

DataLine(p) == [prefix |-> "data:", payload |-> p]

\* Python truthiness of a value, as `x or ""` tests it.
Falsy(v) ==
    \/ v.t = "null"
    \/ v.t = "str" /\ v.len = 0
    \/ v.t = "int" /\ v.n = 0

\* `x or ""`.
OrEmpty(v) == IF Falsy(v) THEN JStr("", 0) ELSE v

\* s[:200] of a string.
Slice200(v) == IF v.len <= COMMENT_CAP THEN v ELSE [v EXCEPT !.len = COMMENT_CAP]

\* Whether (x or "")[:200] evaluates: a str (or a falsy value, replaced by "")
\* can be sliced, a truthy number raises TypeError.
Sliceable(v) == OrEmpty(v).t = "str"

\* datetime.fromtimestamp(ts, tz=timezone.utc).isoformat(), as the civil
\* fields of the instant: days since the epoch and time of day.
IsoFormat(ts) ==
    [t |-> "iso",
     day |-> ts \div 86400,
     hh |-> (ts % 86400) \div 3600,
     mm |-> (ts % 3600) \div 60,
     ss |-> ts % 60]

(***************************************************************************)
(* The per-line decoding steps of the loop body.                           *)
(***************************************************************************)

\* A decoder that lets JSONDecodeError through: no handler of run_stream takes it.
OnJsonErrorUncaught == "nonobject"

\* What json.loads does with an undecodable payload: JSONDecodeError is caught
\* and the line is skipped.
OnJsonError == "malformed"

\* The outcome of lines 146-165 for one raw line:
\*   "nondata"   empty line or a line without the data: prefix (continue)
\*   "done"      the [DONE] marker (continue)
\*   "malformed" json.loads raised JSONDecodeError (continue)
\*   "nonobject" the decoded value has no .get: AttributeError, not caught
\*   "badtitle"  the title is unhashable: `in` raises TypeError, not caught
\*   "untracked" the title is not in TRACKED_TITLES (continue)
\*   "event"     a tracked event to dispatch
Decode(raw_line) ==
    LET p == raw_line.payload IN
    IF raw_line.prefix # "data:" THEN "nondata"
    ELSE IF p.t = "notjson" /\ p.s = "[DONE]" THEN "done"
    ELSE IF p.t = "notjson" THEN OnJsonError
    ELSE IF p.t # "object" THEN "nonobject"
    ELSE IF p.title.t = "array" THEN "badtitle"
    ELSE IF ~(p.title.t = "str" /\ p.title.s \in TRACKED_TITLES) THEN "untracked"
    ELSE "event"

\* ts = event.get("timestamp"); if ts is None: ts = int(time.time()).
\* Defined for a timestamp that is a number or missing.
EventTs(event, clock) ==
    IF event.timestamp.t = "null" THEN clock ELSE event.timestamp.n

\* Whether datetime.fromtimestamp accepts the timestamp (a str raises TypeError).
TsUsable(event) == event.timestamp.t \in {"null", "int"}

(***************************************************************************)
(* MetricsStore: lines 117-125 and 173-177.                                *)
(***************************************************************************)

InitialMetrics ==
    [title \in TRACKED_TITLES |->
        [total_edits |-> 0, last_edit_utc |-> JNull,
         last_user |-> JNull, last_comment |-> JNull]]

\* A store that sets the counter instead of adding to it.
CountEditAssign(m) == [m EXCEPT !.total_edits = 1]

\* metrics[title]["total_edits"] += 1
CountEdit(m) == [m EXCEPT !.total_edits = @ + 1]

\* Overwrites that keep the old user when the event names none.
SetLastKeepUser(m, user, comment, ts) ==
    [m EXCEPT !.last_edit_utc = IsoFormat(ts),
              !.last_user = IF user.t = "null" THEN @ ELSE user,
              !.last_comment = comment]

\* The three overwrites that follow the increment.
SetLast(m, user, comment, ts) ==
    [m EXCEPT !.last_edit_utc = IsoFormat(ts),
              !.last_user = user,
              !.last_comment = comment]

\* The whole update block for one event.
Update(all, title, user, comment, ts) ==
    [all EXCEPT ![title] = SetLast(CountEdit(@), user, comment, ts)]

\* The first k statements of the update block (1 <= k <= 4), the rest not run.
PartialUpdate(all, title, user, comment, ts, k) ==
    [all EXCEPT ![title] =
        [total_edits |-> @.total_edits + 1,
         last_edit_utc |-> IF k >= 2 THEN IsoFormat(ts) ELSE @.last_edit_utc,
         last_user |-> IF k >= 3 THEN user ELSE @.last_user,
         last_comment |-> IF k >= 4 THEN comment ELSE @.last_comment]]

(***************************************************************************)
(* AlertWindow: lines 179-192.                                             *)
(***************************************************************************)

\* An eviction test that also drops a timestamp equal to the cutoff.
StaleOrEqual(front, cutoff) == front <= cutoff

\* The eviction test of the while loop: dq[0] < cutoff.
Stale(front, cutoff) == front < cutoff

\* An eviction that pops at most once (an if in place of the while).
EvictOnce(dq, cutoff) ==
    IF dq # <<>> /\ Stale(Head(dq), cutoff) THEN Tail(dq) ELSE dq

\* while dq and dq[0] < cutoff: dq.popleft()
RECURSIVE Evict(_, _)
Evict(dq, cutoff) ==
    IF dq # <<>> /\ Stale(Head(dq), cutoff)
    THEN Evict(Tail(dq), cutoff)
    ELSE dq

\* A window that refuses a timestamp older than its newest entry.
RecordInOrder(dq, ts) ==
    IF dq # <<>> /\ ts < dq[Len(dq)]
    THEN dq
    ELSE Evict(Append(dq, ts), ts - ALERT_WINDOW_SECONDS)

\* dq.append(ts); cutoff = ts - ALERT_WINDOW_SECONDS; evict.
Record(dq, ts) == Evict(Append(dq, ts), ts - ALERT_WINDOW_SECONDS)

\* A threshold test that is strict.
FiresAbove(dq) == Len(dq) > ALERT_COUNT

\* if len(dq) >= ALERT_COUNT
Fires(dq) == Len(dq) >= ALERT_COUNT

\* A firing that drops the oldest timestamp only (a window that keeps sliding).
AfterCheckSliding(dq) == IF Fires(dq) THEN Tail(dq) ELSE dq

\* dq.clear() after a firing; the window is kept otherwise.
AfterCheck(dq) == IF Fires(dq) THEN <<>> ELSE dq

\* One deque read for every title (a plain deque in place of the defaultdict).
WindowOfShared(windows, title) ==
    IF DOMAIN windows = {} THEN <<>>
    ELSE windows[CHOOSE x \in DOMAIN windows : TRUE]

\* recent_edits[title] of the defaultdict: a missing key reads as an empty deque.
WindowOf(windows, title) ==
    IF title \in DOMAIN windows THEN windows[title] ELSE <<>>

\* The mapping after recent_edits[title] has been read (the key now exists) and
\* the deque changed to dq.
WithWindow(windows, title, dq) ==
    [x \in (DOMAIN windows) \cup {title} |-> IF x = title THEN dq ELSE windows[x]]

(***************************************************************************)
(* PersistenceSink: lines 82-105.                                          *)
(***************************************************************************)

\* The row append_metrics_row writes, stamped iso_now().
MetricsRow(title, m, clock) ==
    [timestamp_utc |-> IsoFormat(clock),
     title |-> title,
     total_edits |-> m.total_edits,
     last_edit_utc |-> OrEmpty(m.last_edit_utc),
     last_user |-> OrEmpty(m.last_user),
     last_comment |-> Slice200(OrEmpty(m.last_comment))]

\* for t in TRACKED_TITLES: append_metrics_row(t, metrics[t]) -- the rows
\* written, in iteration order, up to the first row whose comment cannot be
\* sliced (the TypeError ends the loop).
RECURSIVE RowsWritten(_, _, _)
RowsWritten(order, all, clock) ==
    IF order = <<>> \/ ~Sliceable(all[Head(order)].last_comment)
    THEN <<>>
    ELSE <<MetricsRow(Head(order), all[Head(order)], clock)>>
         \o RowsWritten(Tail(order), all, clock)

\* Whether the flush loop runs to its end.
RowsComplete(all) == \A title \in TRACKED_TITLES : Sliceable(all[title].last_comment)

\* An alert that reports the size of the window after it was cleared.
AlertLineAfterClear(title, count) ==
    [kind |-> "ALERT", title |-> title,
     count |-> 0, minutes |-> ALERT_WINDOW_SECONDS \div 60]

\* The message log_alert appends for a firing (the [iso_now()] prefix of the
\* line is left out).
AlertLine(title, count) ==
    [kind |-> "ALERT", title |-> title,
     count |-> count, minutes |-> ALERT_WINDOW_SECONDS \div 60]

\* The message log_alert appends in the reconnect handler, with repr(e).
InfoLine(error) == [kind |-> "INFO", error |-> error]

(***************************************************************************)
(* The feed: the lines the remote end may deliver and the errors the       *)
(* transport may raise.                                                    *)
(***************************************************************************)

\* Wall-clock time when run_stream starts.
StartTime == 2000

\* Event timestamps: an instant, the instant one window later, and one second
\* after that. All lie before StartTime.
EventTimes == {100, 100 + ALERT_WINDOW_SECONDS, 100 + ALERT_WINDOW_SECONDS + 1}

Alice == JStr("Alice", 5)

TitleStr(title) == JStr(title, IF title = "Wikipedia" THEN 9 ELSE 7)

ShortComment == JStr("typo", 4)

LongComment == JStr("lorem", COMMENT_CAP + 50)

\* Lines that never reach the dispatch: SSE framing, the [DONE] marker, an
\* undecodable payload, an event for another page, an object without a title.
NoiseLines ==
    {EmptyLine, FieldLine,
     DataLine(NotJson("[DONE]")),
     DataLine(NotJson("{not json")),
     DataLine(JObject(JStr("Some Other Page", 15), Alice, ShortComment, JInt(100))),
     DataLine(JObject(JNull, JNull, JNull, JNull))}

\* Decodable payloads that do not have the expected shape: not an object, a
\* title that is a list, a timestamp that is a string.
MismatchedLines ==
    {DataLine(JArray),
     DataLine(JObject(JArray, Alice, ShortComment, JInt(100))),
     DataLine(JObject(TitleStr("Wikipedia"), Alice, ShortComment, JStr("yesterday", 9)))}

\* Events for tracked titles: with and without user, comment and timestamp,
\* timestamps in and out of order, a comment longer than the cap and a comment
\* that is a number.
EventLines ==
    {DataLine(JObject(TitleStr("Wikipedia"), Alice, LongComment, JInt(100 + ALERT_WINDOW_SECONDS))),
     DataLine(JObject(TitleStr("Wikipedia"), JNull, JNull, JInt(100))),
     DataLine(JObject(TitleStr("Wikipedia"), JStr("Bob", 3), ShortComment, JNull)),
     DataLine(JObject(TitleStr("YouTube"), Alice, JInt(7), JInt(100 + ALERT_WINDOW_SECONDS))),
     DataLine(JObject(TitleStr("YouTube"), JNull, JNull, JInt(100)))}

Lines == NoiseLines \cup MismatchedLines \cup EventLines

\* What a line of the feed is, by its text alone:
\*   "nondata"   no data: prefix
\*   "done"      the [DONE] marker
\*   "malformed" a payload that is not JSON
\*   "nonobject" JSON, but not an object
\*   "badtitle"  an object whose title is a list
\*   "untracked" an object whose title is missing or not a tracked title
\*   "badts"     a tracked title with a timestamp that is not a number
\*   "event"     a tracked title with a numeric or missing timestamp
LineClass(raw_line) ==
    LET p == raw_line.payload IN
    CASE raw_line.prefix # "data:" -> "nondata"
      [] raw_line.prefix = "data:" /\ p = NotJson("[DONE]") -> "done"
      [] raw_line.prefix = "data:" /\ p.t = "notjson" /\ p # NotJson("[DONE]") -> "malformed"
      [] raw_line.prefix = "data:" /\ p.t \in {"array", "null", "str", "int"} -> "nonobject"
      [] OTHER ->
           IF p.title.t = "array" THEN "badtitle"
           ELSE IF p.title.t # "str" \/ p.title.s \notin TRACKED_TITLES THEN "untracked"
           ELSE IF p.timestamp.t \notin {"null", "int"} THEN "badts"
           ELSE "event"

\* The event timestamps and one that lies before all of them.
WindowTimes == EventTimes \cup {40}

\* Events that differ in title and timestamp only.
WindowLines ==
    {DataLine(JObject(TitleStr(title), Alice, ShortComment, JInt(ts))) :
        title \in TRACKED_TITLES, ts \in WindowTimes}

\* Events of one title that differ in timestamp only.
RunLines ==
    {DataLine(JObject(TitleStr("Wikipedia"), Alice, ShortComment, JInt(ts))) :
        ts \in EventTimes}

\* What the transport raises, by the two classes the handler of line 202
\* names: requests.RequestException (connection refused, HTTP error status from
\* raise_for_status, requests' timeouts, a broken chunked body) and the
\* built-in TimeoutError.
TransportErrors == {"RequestException", "TimeoutError"}

(***************************************************************************)
(* State.                                                                  *)
(***************************************************************************)
VARIABLES
    pc,            \* where run_stream is
    metrics,       \* title -> metrics (lines 117-125)
    recent_edits,  \* title -> deque of timestamps (line 128), keys created lazily
    last_flush,    \* line 130
    now,           \* the wall clock, time.time()
    snapshot,      \* contents of metrics_snapshot.json
    metrics_csv,   \* rows of metrics.csv after the header
    alerts_log,    \* lines of alerts.log
    signal,        \* whether SIGINT has been delivered
    decoded,       \* history: title -> number of its events dispatched
    history,       \* history: title -> the events recorded, with what record() saw
    last_line,     \* history: the class of the line the last step read, or "none"
    preempted,     \* history: the signal arrived inside an event's update block
    io_error       \* history: the write that raised OSError, or "none"

vars ==
    <<pc, metrics, recent_edits, last_flush, now, snapshot,
      metrics_csv, alerts_log, signal, decoded, history, last_line, preempted, io_error>>

\* Everything the program keeps in memory or on disk, but its position.
data == <<metrics, recent_edits, last_flush, snapshot, metrics_csv, alerts_log>>

Running == {"CONNECTING", "STREAMING", "RECOVERABLE_ERROR", "SHUTTING_DOWN"}

\* STOPPED: run_stream returned after the final snapshot. CRASHED: an exception
\* no handler catches left run_stream. ABORTED: KeyboardInterrupt left run_stream.
Terminated == {"STOPPED", "CRASHED", "ABORTED"}

\* The order in which `for t in TRACKED_TITLES` visits the set; it is the same
\* at every flush of one process.
TitleOrder == <<"Wikipedia", "YouTube">>

\* Lines 113-138: metrics zeroed, no window yet, the initial snapshot written.
Init ==
    /\ pc = "CONNECTING"
    /\ metrics = InitialMetrics
    /\ recent_edits = <<>>
    /\ now = StartTime
    /\ last_flush = StartTime
    /\ snapshot = InitialMetrics
    /\ metrics_csv = <<>>
    /\ alerts_log = <<>>
    /\ signal = FALSE
    /\ decoded = [title \in TRACKED_TITLES |-> 0]
    /\ history = [title \in TRACKED_TITLES |-> <<>>]
    /\ last_line = "none"
    /\ preempted = FALSE
    /\ io_error = "none"

(***************************************************************************)
(* Connection lifecycle: the while True / try of lines 140-145, 202-205.   *)
(***************************************************************************)

\* Lines of alerts.log written by the reconnect handler so far.
Reconnects == Cardinality({i \in DOMAIN alerts_log : alerts_log[i].kind = "INFO"})

\* A connection that starts over with fresh metrics.
ConnectOKResetting ==
    /\ pc = "CONNECTING"
    /\ pc' = "STREAMING"
    /\ metrics' = InitialMetrics
    /\ last_line' = "none"
    /\ UNCHANGED <<recent_edits, last_flush, snapshot, metrics_csv, alerts_log,
                   now, signal, decoded, history, preempted, io_error>>

\* A connection that starts over with fresh windows (the defaultdict created
\* inside the while loop).
ConnectOKFreshWindows ==
    /\ pc = "CONNECTING"
    /\ pc' = "STREAMING"
    /\ recent_edits' = <<>>
    /\ last_line' = "none"
    /\ UNCHANGED <<metrics, last_flush, snapshot, metrics_csv, alerts_log,
                   now, signal, decoded, history, preempted, io_error>>

\* requests.get returned and raise_for_status passed: the for loop starts.
ConnectOK ==
    /\ pc = "CONNECTING"
    /\ pc' = "STREAMING"
    /\ last_line' = "none"
    /\ UNCHANGED <<data, now, signal, decoded, history, preempted, io_error>>

\* A handler that gives up on the second error.
GiveUpOnSecondError == IF Reconnects >= 1 THEN "STOPPED" ELSE "RECOVERABLE_ERROR"

\* Where the handler of lines 202-205 leaves the loop once the note is logged:
\* in time.sleep, on the way back to the top of the while.
AfterTransportError == "RECOVERABLE_ERROR"

\* requests.get, raise_for_status or iter_lines raised error: the handler logs
\* the note and starts its sleep.
TransportError(error) ==
    /\ pc \in {"CONNECTING", "STREAMING"}
    /\ error \in TransportErrors
    /\ Reconnects < MaxReconnects
    /\ alerts_log' = Append(alerts_log, InfoLine(error))
    /\ pc' = AfterTransportError
    /\ last_line' = "none"
    /\ UNCHANGED <<metrics, recent_edits, last_flush, snapshot, metrics_csv,
                   now, signal, decoded, history, preempted, io_error>>

\* time.sleep(5) returned: the while loop starts over.
BackoffDone ==
    /\ pc = "RECOVERABLE_ERROR"
    /\ pc' = "CONNECTING"
    /\ last_line' = "none"
    /\ UNCHANGED <<data, now, signal, decoded, history, preempted, io_error>>

\* The remote end closed the stream: iter_lines is exhausted, the for loop and
\* the with block end without an exception, the while loop starts over.
StreamEnd ==
    /\ pc = "STREAMING"
    /\ pc' = "CONNECTING"
    /\ last_line' = "none"
    /\ UNCHANGED <<data, now, signal, decoded, history, preempted, io_error>>

\* The wall clock advances by d seconds.
Tick(d) ==
    /\ pc \in Running
    /\ now + d <= StartTime + MaxTicks * (FLUSH_EVERY_SECONDS \div 2)
    /\ now' = now + d
    /\ last_line' = "none"
    /\ UNCHANGED <<pc, data, signal, decoded, history, preempted, io_error>>

(***************************************************************************)
(* The stop signal. KeyboardInterrupt is raised where the main thread is.  *)
(***************************************************************************)

\* Raised inside the try body (in requests.get or while iter_lines waits for
\* the next line): the except KeyboardInterrupt clause of line 206 takes it.
Interrupt ==
    /\ pc \in {"CONNECTING", "STREAMING"}
    /\ ~signal
    /\ signal' = TRUE
    /\ pc' = "SHUTTING_DOWN"
    /\ last_line' = "none"
    /\ UNCHANGED <<data, now, decoded, history, preempted, io_error>>

\* Where a KeyboardInterrupt raised during time.sleep(5) ends: the sleep is in
\* the handler of line 202, outside the try body, so no clause of the try
\* statement takes it and it leaves run_stream.
AfterInterruptedBackoff == "ABORTED"

InterruptBackoff ==
    /\ pc = "RECOVERABLE_ERROR"
    /\ ~signal
    /\ signal' = TRUE
    /\ pc' = AfterInterruptedBackoff
    /\ last_line' = "none"
    /\ UNCHANGED <<data, now, decoded, history, preempted, io_error>>

\* Lines 206-210: write_snapshot(metrics); print; break.
FinalSnapshot ==
    /\ pc = "SHUTTING_DOWN"
    /\ snapshot' = metrics
    /\ pc' = "STOPPED"
    /\ last_line' = "none"
    /\ UNCHANGED <<metrics, recent_edits, last_flush, metrics_csv, alerts_log,
                   now, signal, decoded, history, preempted, io_error>>

(***************************************************************************)
(* The loop body, lines 146-200, for one line of the stream.               *)
(***************************************************************************)

\* if now - last_flush >= FLUSH_EVERY_SECONDS
FlushDue == now - last_flush >= FLUSH_EVERY_SECONDS

\* Lines 194-200 with the metrics as the event left them: the rows, then the
\* snapshot, then last_flush; a row that cannot be written raises TypeError,
\* which no handler catches.
Flush(all) ==
    IF ~FlushDue
    THEN UNCHANGED <<metrics_csv, snapshot, last_flush, pc>>
    ELSE /\ metrics_csv' = metrics_csv \o RowsWritten(TitleOrder, all, now)
         /\ IF RowsComplete(all)
            THEN /\ snapshot' = all
                 /\ last_flush' = now
                 /\ pc' = pc
            ELSE /\ UNCHANGED <<snapshot, last_flush>>
                 /\ pc' = "CRASHED"

\* Lines 167-200 for a decoded event whose title is tracked.
Dispatch(event) ==
    LET title == event.title.s
        ts == EventTs(event, now)
        updated == Update(metrics, title, event.user, event.comment, ts)
        dq == Record(WindowOf(recent_edits, title), ts)
    IN  /\ decoded' = [decoded EXCEPT ![title] = @ + 1]
        /\ IF ~TsUsable(event)
           THEN \* line 174 ran, line 175 raised TypeError
                /\ metrics' = [metrics EXCEPT ![title] = CountEdit(@)]
                /\ pc' = "CRASHED"
                /\ UNCHANGED <<recent_edits, last_flush, snapshot, metrics_csv,
                               alerts_log, history>>
           ELSE /\ metrics' = updated
                /\ recent_edits' = WithWindow(recent_edits, title, AfterCheck(dq))
                /\ alerts_log' =
                       IF Fires(dq)
                       THEN Append(alerts_log, AlertLine(title, Len(dq)))
                       ELSE alerts_log
                /\ history' =
                       [history EXCEPT ![title] =
                           Append(@, [user |-> event.user, comment |-> event.comment,
                                      ts |-> ts, window |-> dq, fired |-> Fires(dq),
                                      size |-> Len(AfterCheck(dq))])]
                /\ Flush(updated)

\* A loop body that reads recent_edits[title] before the title filter: the
\* defaultdict creates a window for every title that is a string.
ReadLineWindowFirst(raw_line) ==
    /\ pc = "STREAMING"
    /\ last_line' = LineClass(raw_line)
    /\ LET kind == Decode(raw_line) IN
       IF kind = "event"
       THEN /\ Dispatch(raw_line.payload)
            /\ UNCHANGED <<now, signal, preempted, io_error>>
       ELSE /\ pc' = IF kind \in {"nonobject", "badtitle"} THEN "CRASHED" ELSE pc
            /\ recent_edits' =
                  IF kind = "untracked" /\ raw_line.payload.title.t = "str"
                  THEN WithWindow(recent_edits, raw_line.payload.title.s,
                                  WindowOf(recent_edits, raw_line.payload.title.s))
                  ELSE recent_edits
            /\ UNCHANGED <<metrics, last_flush, snapshot, metrics_csv, alerts_log,
                           now, signal, decoded, history, preempted, io_error>>

\* One pass of the for loop.
ReadLine(raw_line) ==
    /\ pc = "STREAMING"
    /\ last_line' = LineClass(raw_line)
    /\ LET kind == Decode(raw_line) IN
       IF kind = "event"
       THEN /\ Dispatch(raw_line.payload)
            /\ UNCHANGED <<now, signal, preempted, io_error>>
       ELSE /\ pc' = IF kind \in {"nonobject", "badtitle"} THEN "CRASHED" ELSE pc
            /\ UNCHANGED <<data, now, signal, decoded, history, preempted, io_error>>

\* The stop signal arrives inside the update block of a tracked event, after
\* k of its four statements (lines 174-177): the rest of the loop body is not
\* run and the except KeyboardInterrupt clause takes over.
InterruptMidEvent(raw_line, k) ==
    /\ pc = "STREAMING"
    /\ ~signal
    /\ Decode(raw_line) = "event"
    /\ TsUsable(raw_line.payload)
    /\ LET event == raw_line.payload
           title == event.title.s
       IN  /\ metrics' = PartialUpdate(metrics, title, event.user, event.comment,
                                       EventTs(event, now), k)
           /\ decoded' = [decoded EXCEPT ![title] = @ + 1]
    /\ signal' = TRUE
    /\ preempted' = TRUE
    /\ pc' = "SHUTTING_DOWN"
    /\ last_line' = "none"
    /\ UNCHANGED <<recent_edits, last_flush, snapshot, metrics_csv, alerts_log,
                   now, history, io_error>>

\* The writes of the loop that may raise OSError (disk full, permission
\* denied) with an event that raises no alert: open() in append_metrics_row for
\* the first row, open() in write_snapshot.
FlushWrites == {"row", "snapshot"}

\* Where an OSError raised by a write ends: OSError is neither a
\* requests.RequestException nor a TimeoutError, so no clause of the try
\* statement takes it and it leaves run_stream.
AfterDiskError == "CRASHED"

\* One pass of the for loop for a tracked event with a flush due, in which the
\* write at point raises OSError: the event has been counted and recorded, the
\* rows before the failing write are on disk, the snapshot is not replaced.
ReadLineDiskError(raw_line, point) ==
    /\ pc = "STREAMING"
    /\ Decode(raw_line) = "event"
    /\ TsUsable(raw_line.payload)
    /\ FlushDue
    /\ LET event == raw_line.payload
           title == event.title.s
           ts == EventTs(event, now)
           updated == Update(metrics, title, event.user, event.comment, ts)
           dq == Record(WindowOf(recent_edits, title), ts)
       IN  /\ ~Fires(dq)
           /\ point = "snapshot" => RowsComplete(updated)
           /\ decoded' = [decoded EXCEPT ![title] = @ + 1]
           /\ metrics' = updated
           /\ recent_edits' = WithWindow(recent_edits, title, dq)
           /\ history' =
                  [history EXCEPT ![title] =
                      Append(@, [user |-> event.user, comment |-> event.comment,
                                 ts |-> ts, window |-> dq, fired |-> FALSE,
                                 size |-> Len(dq)])]
           /\ metrics_csv' =
                  IF point = "row" THEN metrics_csv
                  ELSE metrics_csv \o RowsWritten(TitleOrder, updated, now)
    /\ io_error' = point
    /\ pc' = AfterDiskError
    /\ last_line' = LineClass(raw_line)
    /\ UNCHANGED <<last_flush, snapshot, alerts_log, now, signal, preempted>>

\* The transport raised error and log_alert, called by the handler of line
\* 202, raises OSError on open(): the note is not written, the sleep is not
\* reached and the OSError, raised inside the handler, leaves run_stream.
TransportErrorDiskError(error) ==
    /\ pc \in {"CONNECTING", "STREAMING"}
    /\ error \in TransportErrors
    /\ Reconnects < MaxReconnects
    /\ io_error' = "notice"
    /\ pc' = AfterDiskError
    /\ last_line' = "none"
    /\ UNCHANGED <<data, now, signal, decoded, history, preempted>>

(***************************************************************************)
(* Specifications.                                                         *)
(***************************************************************************)

RECURSIVE Total(_, _)
Total(f, S) ==
    IF S = {} THEN 0
    ELSE LET x == CHOOSE y \in S : TRUE IN f[x] + Total(f, S \ {x})

\* Tracked events dispatched so far.
Dispatched == Total(decoded, TRACKED_TITLES)

\* The feed may deliver raw_line: an event counts against the budget.
MayDeliver(raw_line, budget) == Decode(raw_line) = "event" => Dispatched < budget

\* The whole program against an arbitrary feed.
Next ==
    \/ ConnectOK
    \/ \E error \in TransportErrors : TransportError(error)
    \/ BackoffDone
    \/ StreamEnd
    \/ \E d \in {FLUSH_EVERY_SECONDS \div 2} : Tick(d)
    \/ \E raw_line \in Lines : MayDeliver(raw_line, MaxEvents) /\ ReadLine(raw_line)
    \/ \E raw_line \in EventLines, k \in 1..4 :
          MayDeliver(raw_line, MaxEvents) /\ InterruptMidEvent(raw_line, k)
    \/ \E raw_line \in EventLines, point \in FlushWrites :
          MayDeliver(raw_line, MaxEvents) /\ ReadLineDiskError(raw_line, point)
    \/ \E error \in TransportErrors : TransportErrorDiskError(error)
    \/ Interrupt
    \/ InterruptBackoff
    \/ FinalSnapshot

Spec == Init /\ [][Next]_vars

\* One connection delivering bursts of well-formed tracked events.
NextWindow ==
    \/ ConnectOK
    \/ \E raw_line \in WindowLines : MayDeliver(raw_line, MaxBurst) /\ ReadLine(raw_line)

SpecWindow == Init /\ [][NextWindow]_vars

\* One connection delivering a long run of events of one title.
NextRun ==
    \/ ConnectOK
    \/ \E raw_line \in RunLines : MayDeliver(raw_line, MaxRun) /\ ReadLine(raw_line)

SpecRun == Init /\ [][NextRun]_vars

\* The transport fails in the middle of a burst: after its first event and
\* before its ALERT_COUNT-th.
MayFail == Dispatched \in 1..(ALERT_COUNT - 1)

\* Connections that fail or end in mid-burst, each followed by a reconnect.
NextReconnect ==
    \/ ConnectOK
    \/ \E error \in TransportErrors : MayFail /\ TransportError(error)
    \/ BackoffDone
    \/ MayFail /\ StreamEnd
    \/ \E raw_line \in RunLines : MayDeliver(raw_line, MaxBurst) /\ ReadLine(raw_line)

SpecReconnect == Init /\ [][NextReconnect]_vars

(***************************************************************************)
(* Properties.                                                             *)
(***************************************************************************)

\* Lines of alerts.log that are alerts for title.
AlertsFor(title) ==
    Cardinality({i \in DOMAIN alerts_log :
        alerts_log[i].kind = "ALERT" /\ alerts_log[i].title = title})

\* Records of h that fired.
Firings(h) == Cardinality({i \in DOMAIN h : h[i].fired})

\* C1: for every tracked title, total_edits equals the number of decoded events
\* with that title that the loop has dispatched, whatever untracked events,
\* malformed lines, flushes and reconnects came in between.
C1_TotalEditsCountsEvents ==
    \A title \in TRACKED_TITLES : metrics[title].total_edits = decoded[title]

\* Two events of one title counted, after a reconnect and a flush, with a
\* malformed line read last.
C1_Witness ==
    /\ metrics["Wikipedia"].total_edits = 2
    /\ Reconnects >= 1
    /\ last_flush > StartTime
    /\ last_line = "malformed"

\* The window of a title is empty when its i-th record starts.
EmptyBefore(h, i) == i = 1 \/ h[i - 1].size = 0

\* Records i..j carry timestamps within ALERT_WINDOW_SECONDS of each other.
Close(h, i, j) ==
    \A a, b \in i..j : h[a].ts - h[b].ts <= ALERT_WINDOW_SECONDS

\* C2: counting from an empty window, events of one title whose timestamps lie
\* within ALERT_WINDOW_SECONDS of each other raise no alert up to the
\* (ALERT_COUNT-1)-th, raise one on the ALERT_COUNT-th, and the event after that
\* raises none and leaves a window of size 1; alerts.log holds one alert line
\* per firing.
C2_BurstFiresOnce ==
    \A title \in TRACKED_TITLES :
        LET h == history[title] IN
        /\ AlertsFor(title) = Firings(h)
        /\ \A i \in DOMAIN h : \A j \in i..Len(h) :
              (EmptyBefore(h, i) /\ Close(h, i, j)) =>
                 /\ j - i + 1 < ALERT_COUNT => ~h[j].fired
                 /\ j - i + 1 = ALERT_COUNT =>
                       /\ h[j].fired
                       /\ j < Len(h) => ~h[j + 1].fired /\ h[j + 1].size = 1

\* A burst of ALERT_COUNT events with differing timestamps fired on its last
\* event and one more event followed.
C2_Witness ==
    \E title \in TRACKED_TITLES :
        LET h == history[title] IN
        /\ Len(h) = ALERT_COUNT + 1
        /\ Close(h, 1, ALERT_COUNT)
        /\ h[1].ts # h[ALERT_COUNT].ts
        /\ h[ALERT_COUNT].fired
        /\ AlertsFor(title) = 1

\* C3: once the stop signal has been delivered, the program is in the shutdown
\* path, and it is STOPPED only with the snapshot holding the final metrics:
\* the signal never ends the program without the final snapshot write.
C3_StopWritesFinalSnapshot ==
    signal =>
        /\ pc \in {"SHUTTING_DOWN", "STOPPED"}
        /\ pc = "STOPPED" => snapshot = metrics

\* C4: every transport error, while connecting or while streaming, is taken by
\* the reconnect handler; the handler's sleep can always end and, unless the
\* stop signal arrives, ends in CONNECTING; STOPPED is entered only after the
\* stop signal.
C4_ReconnectNeverFatal ==
    /\ [][/\ Reconnects' > Reconnects =>
                pc \in {"CONNECTING", "STREAMING"} /\ pc' = "RECOVERABLE_ERROR"
          /\ (pc = "RECOVERABLE_ERROR" /\ pc' # pc) =>
                pc' = "CONNECTING" \/ (signal' /\ ~signal)
          /\ (pc' = "STOPPED" /\ pc # "STOPPED") => signal]_vars
    /\ [](pc = "RECOVERABLE_ERROR" => ENABLED BackoffDone)

\* Two transport errors, one of each class, have been handled and the loop is
\* connecting again.
C4_Witness ==
    /\ pc = "CONNECTING"
    /\ Reconnects = 2
    /\ alerts_log[1].error # alerts_log[2].error
    /\ \A title \in TRACKED_TITLES : decoded[title] = 0

\* C5: a data line whose payload is not JSON, or is JSON of another shape than
\* the expected object, is skipped: the loop stays in STREAMING and metrics,
\* windows and alerts.log are as before.
C5_MismatchedLinesAreSkipped ==
    [][last_line' \in {"malformed", "nonobject", "badtitle", "badts"} =>
          /\ pc' = "STREAMING"
          /\ UNCHANGED <<metrics, recent_edits, alerts_log>>]_vars

\* C6 as stated: after the eviction of any record, every retained timestamp is
\* at least the recorded timestamp minus ALERT_WINDOW_SECONDS.
C6_AllRetainedWithinWindow ==
    \A title \in TRACKED_TITLES : \A i \in DOMAIN history[title] :
        LET r == history[title][i] IN
        \A k \in DOMAIN r.window : r.window[k] >= r.ts - ALERT_WINDOW_SECONDS

\* C6, amended: after the eviction of any record, the front of the window is at
\* least the recorded timestamp minus ALERT_WINDOW_SECONDS, and so is every
\* retained timestamp that is not below one retained before it.
C6_FrontWithinWindow ==
    \A title \in TRACKED_TITLES : \A i \in DOMAIN history[title] :
        LET r == history[title][i]
            cutoff == r.ts - ALERT_WINDOW_SECONDS
        IN  /\ r.window # <<>>
            /\ Head(r.window) >= cutoff
            /\ \A k \in DOMAIN r.window :
                  (\A j \in 1..(k - 1) : r.window[j] <= r.window[k]) =>
                      r.window[k] >= cutoff

\* A record evicted two timestamps and retained two.
C6_Witness ==
    \E title \in TRACKED_TITLES : \E i \in DOMAIN history[title] :
        /\ i > 1
        /\ Len(history[title][i].window) = 2
        /\ history[title][i - 1].size = 3

\* C7: no step of a reconnect cycle (a transport error, the sleep, the end of
\* the stream, the new connection) changes any title's metrics, and no step at
\* all lowers a total_edits.
C7_ReconnectKeepsMetrics ==
    [][/\ (pc # "STREAMING" \/ pc' \in {"RECOVERABLE_ERROR", "CONNECTING"}) =>
             metrics' = metrics
       /\ \A title \in TRACKED_TITLES :
             metrics'[title].total_edits >= metrics[title].total_edits]_vars

\* Streaming again after two reconnects, with two edits of one title counted.
C7_Witness ==
    /\ pc = "STREAMING"
    /\ Reconnects = 2
    /\ metrics["Wikipedia"].total_edits = 2
    /\ metrics["Wikipedia"].last_user = Alice

\* C8: unless the stop signal cut an update block short, the last_* fields of a
\* title that has had an event are those of the event processed last for it,
\* whether or not its timestamp is the highest.
C8_LastFieldsFromLastEvent ==
    ~preempted =>
        \A title \in TRACKED_TITLES :
            LET h == history[title] IN
            h # <<>> =>
                /\ metrics[title].last_user = h[Len(h)].user
                /\ metrics[title].last_comment = h[Len(h)].comment
                /\ metrics[title].last_edit_utc = IsoFormat(h[Len(h)].ts)

\* The second event of a title carried a lower timestamp than the first and no
\* user, and last_edit_utc went back.
C8_Witness ==
    LET h == history["Wikipedia"] IN
    /\ Len(h) = 2
    /\ h[2].ts < h[1].ts
    /\ h[1].user = Alice
    /\ h[2].user = JNull
    /\ metrics["Wikipedia"].last_edit_utc = IsoFormat(h[2].ts)

\* The window of a title when its i-th record starts.
WindowBefore(h, i) ==
    IF i = 1 \/ h[i - 1].fired THEN <<>> ELSE h[i - 1].window

\* C9: the eviction of a record removes a prefix of the window, exactly the
\* leading timestamps strictly below the cutoff: after t alone, t + 1801 leaves
\* only itself and t + 1800 leaves both.
C9_StrictFrontEviction ==
    \A title \in TRACKED_TITLES : \A i \in DOMAIN history[title] :
        LET h == history[title]
            r == h[i]
            cutoff == r.ts - ALERT_WINDOW_SECONDS
            full == Append(WindowBefore(h, i), r.ts)
            n == Len(full) - Len(r.window)
        IN  /\ n >= 0
            /\ r.window = SubSeq(full, n + 1, Len(full))
            /\ \A k \in 1..n : full[k] < cutoff
            /\ r.window # <<>> /\ ~(Head(r.window) < cutoff)
            /\ (Len(full) = 2 /\ r.ts = full[1] + ALERT_WINDOW_SECONDS + 1) =>
                  r.window = <<r.ts>>
            /\ (Len(full) = 2 /\ r.ts = full[1] + ALERT_WINDOW_SECONDS) =>
                  r.window = <<full[1], r.ts>>

\* One title saw t then t + 1801 and kept one timestamp, the other saw t then
\* t + 1800 and kept both.
C9_Witness ==
    \E a, b \in TRACKED_TITLES :
        /\ Len(history[a]) = 2 /\ Len(history[b]) = 2
        /\ history[a][2].ts = history[a][1].ts + ALERT_WINDOW_SECONDS + 1
        /\ Len(history[a][2].window) = 1
        /\ history[b][2].ts = history[b][1].ts + ALERT_WINDOW_SECONDS
        /\ Len(history[b][2].window) = 2

\* C10: a data line that fails JSON decoding leaves the loop in STREAMING and
\* changes no metrics, no window and no line of alerts.log.
C10_MalformedLineChangesNothing ==
    [][last_line' = "malformed" =>
          /\ pc' = "STREAMING"
          /\ UNCHANGED <<metrics, recent_edits, alerts_log, snapshot, metrics_csv>>]_vars

\* A malformed line was read after an event had been counted and recorded.
C10_Witness ==
    /\ last_line = "malformed"
    /\ pc = "STREAMING"
    /\ metrics["Wikipedia"].total_edits >= 1
    /\ "Wikipedia" \in DOMAIN recent_edits

\* C11: a decodable object whose title is missing or not tracked leaves the
\* loop in STREAMING and changes no metrics, no window (none is created) and no
\* line of alerts.log; the keys of metrics are the tracked titles in every state.
C11_UntrackedTitleChangesNothing ==
    /\ [][last_line' = "untracked" =>
             /\ pc' = "STREAMING"
             /\ UNCHANGED <<metrics, recent_edits, alerts_log>>]_vars
    /\ [](DOMAIN metrics = TRACKED_TITLES)

\* An event for another page was read after a tracked event had been counted
\* and recorded; the other tracked title has no window yet.
C11_Witness ==
    /\ last_line = "untracked"
    /\ pc = "STREAMING"
    /\ metrics["Wikipedia"].total_edits >= 1
    /\ DOMAIN recent_edits = {"Wikipedia"}

\* C12: the loop leaves STREAMING towards a new connection only through
\* RECOVERABLE_ERROR, with one more note in alerts.log: never from STREAMING
\* straight back to CONNECTING, the end of the stream included.
C12_LeavingStreamingLogsAndBacksOff ==
    [][(pc = "STREAMING" /\ pc' \in {"CONNECTING", "RECOVERABLE_ERROR"}) =>
          /\ pc' = "RECOVERABLE_ERROR"
          /\ Reconnects' = Reconnects + 1]_vars

\* C13: whatever line the loop has just read and skipped or processed (a tracked
\* event, an untracked event, a malformed line, a non-data line), a flush that
\* is due is made -- one row per tracked title, the snapshot equal to the
\* metrics, last_flush set to the clock -- and a flush that is not due is not.
C13_FlushAfterAnyLine ==
    [][(last_line' \in {"event", "untracked", "malformed", "nondata"}
           /\ pc' = "STREAMING") =>
          IF FlushDue
          THEN /\ Len(metrics_csv') = Len(metrics_csv) + Cardinality(TRACKED_TITLES)
               /\ snapshot' = metrics'
               /\ last_flush' = now
          ELSE UNCHANGED <<metrics_csv, snapshot, last_flush>>]_vars

\* C14: once the program has stopped, the snapshot holds, for every title, the
\* state after a whole number of events: total_edits is the number of events
\* processed to the end, and the last_* fields are those of the last of them
\* (or unset when there is none), wherever the stop signal arrived.
C14_FinalSnapshotHasWholeEvents ==
    pc = "STOPPED" =>
        \A title \in TRACKED_TITLES :
            LET h == history[title]
                m == snapshot[title]
            IN  /\ m.total_edits = Len(h)
                /\ h = <<>> =>
                      /\ m.last_edit_utc = JNull
                      /\ m.last_user = JNull
                      /\ m.last_comment = JNull
                /\ h # <<>> =>
                      /\ m.last_edit_utc = IsoFormat(h[Len(h)].ts)
                      /\ m.last_user = h[Len(h)].user
                      /\ m.last_comment = h[Len(h)].comment

\* C15: a firing leaves the title's window empty; two firings of one title are
\* at least ALERT_COUNT of its records apart; and ALERT_COUNT + 1 records that
\* start a window of their own and lie within ALERT_WINDOW_SECONDS of each
\* other hold exactly one firing, with one alert line per firing in alerts.log.
C15_DebounceByReset ==
    \A title \in TRACKED_TITLES :
        LET h == history[title] IN
        /\ AlertsFor(title) = Firings(h)
        /\ \A i \in DOMAIN h : h[i].fired => h[i].size = 0
        /\ h # <<>> => Len(WindowOf(recent_edits, title)) = h[Len(h)].size
        /\ \A i, j \in DOMAIN h :
              (i < j /\ h[i].fired /\ h[j].fired) => j - i >= ALERT_COUNT
        /\ \A i \in DOMAIN h :
              (/\ Len(h[i].window) = 1
               /\ i + ALERT_COUNT <= Len(h)
               /\ Close(h, i, i + ALERT_COUNT)) =>
                  Cardinality({k \in i..(i + ALERT_COUNT) : h[k].fired}) = 1

\* A title fired on its ALERT_COUNT-th record, was recorded ALERT_COUNT more
\* times, the first of them within the window of the burst, and fired again.
C15_Witness ==
    LET h == history["Wikipedia"] IN
    /\ Len(h) = 2 * ALERT_COUNT
    /\ h[ALERT_COUNT].fired
    /\ ~h[ALERT_COUNT + 1].fired
    /\ Close(h, 1, ALERT_COUNT + 1)
    /\ h[2 * ALERT_COUNT].fired
    /\ AlertsFor("Wikipedia") = 2

\* C16: a write that raises OSError (a metrics row, the snapshot, a notice for
\* alerts.log) leaves the loop running, with the metrics keyed by the tracked
\* titles and counting the events dispatched, so that a later flush can be made.
C16_DiskErrorKeepsRunning ==
    [][(io_error = "none" /\ io_error' # "none") =>
          /\ pc' \in Running
          /\ DOMAIN metrics' = TRACKED_TITLES
          /\ \A title \in TRACKED_TITLES :
                metrics'[title].total_edits = decoded'[title]]_vars

\* C17: every record appends its timestamp and the eviction of the same record
\* keeps it: the window after eviction ends with the recorded timestamp; a
\* timestamp not above any timestamp in the window is appended with nothing
\* evicted; the record fires exactly when the window, the new timestamp
\* counted, holds ALERT_COUNT; and after a record that does not fire the
\* window is not empty.
C17_NoTimestampRejected ==
    \A title \in TRACKED_TITLES :
        LET h == history[title] IN
        /\ \A i \in DOMAIN h :
              LET r == h[i]
                  before == WindowBefore(h, i)
              IN  /\ r.window # <<>>
                  /\ r.window[Len(r.window)] = r.ts
                  /\ (\A k \in DOMAIN before : r.ts <= before[k]) =>
                        r.window = Append(before, r.ts)
                  /\ r.fired <=> Len(r.window) >= ALERT_COUNT
                  /\ ~r.fired => r.size = Len(r.window)
        /\ (h # <<>> /\ ~h[Len(h)].fired) =>
              /\ WindowOf(recent_edits, title) = h[Len(h)].window
              /\ WindowOf(recent_edits, title) # <<>>

\* A timestamp was evicted, a record with a timestamp older than the evicted
\* one followed and was kept, and a later record fired on a window that still
\* held it.
C17_Witness ==
    \E title \in TRACKED_TITLES :
        LET h == history[title] IN
        /\ Len(h) = ALERT_COUNT + 1
        /\ Len(h[2].window) = 1
        /\ h[3].ts < h[1].ts
        /\ Len(h[3].window) = 2
        /\ h[ALERT_COUNT + 1].fired
        /\ h[ALERT_COUNT + 1].window[2] = h[3].ts

\* C18: between events every window holds at most ALERT_COUNT - 1 timestamps,
\* every record that fired did so on a window of exactly ALERT_COUNT, and
\* every alert line in alerts.log reports the count ALERT_COUNT.
C18_WindowBelowThreshold ==
    /\ \A title \in DOMAIN recent_edits :
          Len(recent_edits[title]) <= ALERT_COUNT - 1
    /\ \A title \in TRACKED_TITLES : \A i \in DOMAIN history[title] :
          /\ history[title][i].size <= ALERT_COUNT - 1
          /\ history[title][i].fired => Len(history[title][i].window) = ALERT_COUNT
    /\ \A i \in DOMAIN alerts_log :
          alerts_log[i].kind = "ALERT" => alerts_log[i].count = ALERT_COUNT

\* An alert was logged and the window has since grown back to ALERT_COUNT - 1.
C18_Witness ==
    /\ AlertsFor("Wikipedia") = 1
    /\ alerts_log[1].count = ALERT_COUNT
    /\ "Wikipedia" \in DOMAIN recent_edits
    /\ Len(recent_edits["Wikipedia"]) = ALERT_COUNT - 1

\* C19: no step of a reconnect cycle (a transport error, the sleep, the end of
\* the stream, the new connection) changes any window, so that ALERT_COUNT
\* events of one title within ALERT_WINDOW_SECONDS of each other, counted from
\* an empty window, fire on the last of them whatever reconnects came between.
C19_WindowsSurviveReconnect ==
    /\ [][(pc # "STREAMING" \/ pc' \in {"RECOVERABLE_ERROR", "CONNECTING"}) =>
             recent_edits' = recent_edits]_vars
    /\ [](\A title \in TRACKED_TITLES :
             LET h == history[title] IN
             \A i \in DOMAIN h :
                (/\ EmptyBefore(h, i)
                 /\ i + ALERT_COUNT - 1 <= Len(h)
                 /\ Close(h, i, i + ALERT_COUNT - 1)) =>
                    /\ h[i + ALERT_COUNT - 1].fired
                    /\ Len(h[i + ALERT_COUNT - 1].window) = ALERT_COUNT)

\* The transport failed in mid-burst, its note was logged, and the alert of the
\* burst follows the note in alerts.log: events from before and after the
\* reconnect filled one window.
C19_Witness ==
    LET h == history["Wikipedia"] IN
    /\ Len(h) = ALERT_COUNT
    /\ Close(h, 1, ALERT_COUNT)
    /\ h[ALERT_COUNT].fired
    /\ Len(alerts_log) = 2
    /\ alerts_log[1].kind = "INFO"
    /\ alerts_log[2].kind = "ALERT"

\* C20: a step that processes an event of title a leaves the metrics, the
\* window (created or not) and the records of every other tracked title as they
\* were; what the record of a retains is a suffix of a's own window with the new
\* timestamp appended; and alerts.log grows exactly when that record fires, by
\* one alert line that names a.
C20_EntitiesIsolated ==
    [][\A a \in TRACKED_TITLES :
          decoded'[a] # decoded[a] =>
             LET own == IF a \in DOMAIN recent_edits THEN recent_edits[a] ELSE <<>>
                 r == history'[a][Len(history'[a])]
                 full == Append(own, r.ts)
             IN  /\ \A b \in TRACKED_TITLES \ {a} :
                       /\ metrics'[b] = metrics[b]
                       /\ decoded'[b] = decoded[b]
                       /\ history'[b] = history[b]
                       /\ (b \in DOMAIN recent_edits') <=> (b \in DOMAIN recent_edits)
                       /\ b \in DOMAIN recent_edits => recent_edits'[b] = recent_edits[b]
                 /\ Len(history'[a]) = Len(history[a]) + 1
                 /\ Len(r.window) <= Len(full)
                 /\ r.window = SubSeq(full, Len(full) - Len(r.window) + 1, Len(full))
                 /\ r.fired <=> alerts_log' # alerts_log
                 /\ r.fired =>
                       /\ Len(alerts_log') = Len(alerts_log) + 1
                       /\ alerts_log'[Len(alerts_log')].kind = "ALERT"
                       /\ alerts_log'[Len(alerts_log')].title = a]_vars

\* One title fired on its ALERT_COUNT-th event and its window is empty, while
\* the other title, with one event, has its window and no alert.
C20_Witness ==
    /\ Len(history["Wikipedia"]) = ALERT_COUNT
    /\ history["Wikipedia"][ALERT_COUNT].fired
    /\ recent_edits["Wikipedia"] = <<>>
    /\ Len(history["YouTube"]) = 1
    /\ metrics["YouTube"].total_edits = 1
    /\ recent_edits["YouTube"] = <<history["YouTube"][1].ts>>
    /\ AlertsFor("YouTube") = 0
    /\ AlertsFor("Wikipedia") = 1

====
